---------------------------- MODULE Spec2Model ----------------------------
(***************************************************************************)
(* Split-read enrichment test of svtk (src/svtk/pesr/sr_test.py).          *)
(*                                                                         *)
(* SRTestRunner.test_record evaluates one VCF record: SRTest.test_record   *)
(* scans a window of positions around each breakpoint end (_test_coord),   *)
(* loads the split-read counts of every position from a tabix file         *)
(* (load_counts), tests called against background samples (test), keeps    *)
(* the best position of each end, tests the sum of the two ends            *)
(* (_test_total) and writes three rows to the output file.                 *)
(*                                                                         *)
(* Numbers.  Medians are kept in half units (twice the median), so that    *)
(* the median of a group of even size stays an integer.  log_pval is kept  *)
(* in units of 10^-8, rounded to the nearest unit.                         *)
(***************************************************************************)
EXTENDS Integers, Sequences, FiniteSets

VARIABLES
    countfile,  \* SRTest.countfile: the lines of the tabix file
    window,     \* SRTest.window
    vcf,        \* the records the runner iterates over
    idx,        \* index in vcf of the record under evaluation (0: none yet)
    pc,         \* position of the control flow
    coord,      \* _test_coord: the end under test, "posA" or "posB"
    results,    \* _test_coord: the per-position results collected so far
    best,       \* _test_coord: the chosen row, <<>> until it is chosen
    bests,      \* test_record: the best rows of the ends tested so far
    counts,     \* SRTestRunner.test_record: the rows SRTest.test_record returned
    fout,       \* SRTestRunner.fout: the rows written so far
    queries     \* regions fetched from countfile for the current record

vars == <<countfile, window, vcf, idx, pc, coord, results, best, bests,
          counts, fout, queries>>

-----------------------------------------------------------------------------
(* Bounds and input sets *)

\* largest count a line of the count file carries
MaxCount == 1

\* largest number of records in the VCF
MaxRecords == 2

\* window radii the test is constructed with
Windows == {0, 1, 2}

\* (chrom, pos, clip, sample) of the lines a count file may hold
HotKeys ==
    { <<"1", 1, "right", "s1">>, <<"1", 2, "right", "s1">>,
      <<"1", 3, "right", "s1">>, <<"1", 2, "right", "s2">>,
      <<"1", 3, "left", "s1">>,  <<"2", 3, "left", "s1">> }

\* the count files: every assignment of a count to the hot keys; a key with
\* count 0 has no line
CountFiles ==
    { { [chrom |-> k[1], pos |-> k[2], clip |-> k[3], count |-> f[k],
         sample |-> k[4]] : k \in {h \in HotKeys : f[h] > 0} }
      : f \in [HotKeys -> 0..MaxCount] }

\* the VCF records; called and background are what choose_background
\* returns for the record
Records ==
    { [id |-> "v1", chrom |-> "1", pos |-> 2, stop |-> 3, chr2 |-> "1",
       strands |-> <<"+", "-">>, called |-> {"s1"}, background |-> {"s2"}],
      [id |-> "v2", chrom |-> "1", pos |-> 1, stop |-> 2, chr2 |-> "2",
       strands |-> <<"+", "+">>, called |-> {"s1"},
       background |-> {"s2", "s3"}],
      [id |-> "v3", chrom |-> "2", pos |-> 3, stop |-> 4, chr2 |-> "2",
       strands |-> <<"-", "+">>, called |-> {"s1", "s2"},
       background |-> {"s3"}] }

\* the VCFs: sequences of 1..MaxRecords distinct records
Vcfs ==
    { v \in UNION { [1..n -> Records] : n \in 1..MaxRecords } :
        \A i, j \in DOMAIN v : i # j => v[i] # v[j] }

-----------------------------------------------------------------------------
(* Pure functions *)

Abs(x) == IF x < 0 THEN -x ELSE x

\* |log10(poisson.cdf(k, mu))| in units of 10^-8; row = 2*mu, column = k
PoissonTable ==
    << <<0, 0, 0, 0, 0>>,
       <<21714724, 4105598, 629388, 76139, 7476>>,
       <<43429448, 13326449, 3635447, 832575, 159237>>,
       <<65144172, 25350171, 9213371, 2948690, 814330>>,
       <<86858896, 39146771, 16961896, 6695662, 2349092>>,
       <<108573620, 54166816, 26455032, 12057372, 5003553>>,
       <<130288345, 70082345, 37346452, 18894009, 8870214>>,
       <<152003069, 86681817, 49370175, 27032289, 13939554>>,
       <<173717793, 103820792, 62323458, 36304083, 20146196>> >>

\* LogPval with the arguments of the cdf exchanged
LogPval_swapped(called, background) ==
    PoissonTable[background + 1][(called \div 2) + 1]

\* np.abs(np.log10(ss.poisson.cdf(background, called))), both in half units;
\* the cdf of a non-integer k is the cdf of floor(k)
LogPval(called, background) ==
    PoissonTable[called + 1][(background \div 2) + 1]

\* countfile.fetch('chrom:pos-pos')
fetch(file, chrom, pos) ==
    {l \in file : l.chrom = chrom /\ l.pos = pos}

\* FetchesRegion with position 0 fetched too
FetchesRegion_zero(pos) == pos >= 0

\* load_counts: whether the region is fetched at all
FetchesRegion(pos) == pos > 0

\* load_counts: the lines of the region in the orientation of the strand
load_counts(file, chrom, pos, strand) ==
    LET lines == IF FetchesRegion(pos) THEN fetch(file, chrom, pos) ELSE {}
        clip == IF strand = "+" THEN "right" ELSE "left"
    IN {l \in lines : l.clip = clip}

\* count of a sample among the loaded lines, 0 when it has no line
SampleCount(lines, s) ==
    IF \E l \in lines : l.sample = s
    THEN (CHOOSE l \in lines : l.sample = s).count
    ELSE 0

\* k-th smallest count of a group of samples
KthCount(lines, group, k) ==
    CHOOSE v \in {SampleCount(lines, s) : s \in group} :
        /\ Cardinality({s \in group : SampleCount(lines, s) < v}) < k
        /\ Cardinality({s \in group : SampleCount(lines, s) <= v}) >= k

\* twice the median of the zero-filled counts of a group
Median2(lines, group) ==
    LET n == Cardinality(group)
    IN IF n % 2 = 1
       THEN 2 * KthCount(lines, group, (n + 1) \div 2)
       ELSE KthCount(lines, group, n \div 2)
            + KthCount(lines, group, n \div 2 + 1)

\* PESRTest.test: medians of the two groups and their enrichment
PESRTest_test(lines, called, background) ==
    LET c == Median2(lines, called)
        b == Median2(lines, background)
    IN [called |-> c, background |-> b, log_pval |-> LogPval(c, b)]

\* SRTest.test
test(file, chrom, pos, strand, called, background) ==
    PESRTest_test(load_counts(file, chrom, pos, strand), called, background)

\* _test_coord: predicted coordinate and strand of an end
EndCoord(record, c) == IF c = "posA" THEN record.pos ELSE record.stop
EndStrand(record, c) ==
    IF c = "posA" THEN record.strands[1] ELSE record.strands[2]

\* EndChrom with the second end tested on CHR2
EndChrom_chr2(record, c) == IF c = "posA" THEN record.chrom ELSE record.chr2

\* _test_coord: the chromosome the positions of an end are tested on
EndChrom(record, c) == record.chrom

\* PosRange with the positions <= 0 left out
PosRange_positive(c, w) ==
    SelectSeq([i \in 1..(2 * w + 1) |-> c - w + i - 1], LAMBDA p : p > 0)

\* range(coord - window, coord + window + 1) as a sequence
PosRange(c, w) == [i \in 1..(2 * w + 1) |-> c - w + i - 1]

\* SortsBefore on log_pval alone
SortsBefore_nodist(a, b) == a.log_pval > b.log_pval

\* SortsBefore with the nearer position first among equal log_pval
SortsBefore_nearest(a, b) ==
    \/ a.log_pval > b.log_pval
    \/ a.log_pval = b.log_pval /\ a.dist < b.dist

\* sort_values(['log_pval', 'dist'], ascending=False): a goes before b
SortsBefore(a, b) ==
    \/ a.log_pval > b.log_pval
    \/ a.log_pval = b.log_pval /\ a.dist > b.dist

\* stable insertion of a row in a sorted frame
RECURSIVE InsertRow(_, _)
InsertRow(r, s) ==
    IF s = <<>> THEN <<r>>
    ELSE IF SortsBefore(r, Head(s)) THEN <<r>> \o s
    ELSE <<Head(s)>> \o InsertRow(r, Tail(s))

\* the frame sorted, rows of equal keys kept in their order
RECURSIVE sort_values(_)
sort_values(s) ==
    IF s = <<>> THEN <<>>
    ELSE LET n == Len(s)
         IN InsertRow(s[n], sort_values(SubSeq(s, 1, n - 1)))

\* _test_total with the log_pval of the two ends added
_test_total_added(rows) ==
    [called |-> rows[1].called + rows[2].called,
     background |-> rows[1].background + rows[2].background,
     log_pval |-> rows[1].log_pval + rows[2].log_pval,
     coord |-> "sum", pos |-> 0]

\* SRTest._test_total on the best rows of the two ends
_test_total(rows) ==
    LET c == rows[1].called + rows[2].called
        b == rows[1].background + rows[2].background
    IN [called |-> c, background |-> b, log_pval |-> LogPval(c, b),
        coord |-> "sum", pos |-> 0]

\* SRTest.test_record, from pd.concat on: the rows of a record, projected on
\* name coord pos log_pval called background
test_record_rows(record, rows) ==
    LET all == rows \o <<_test_total(rows)>>
    IN [i \in 1..Len(all) |->
          [name |-> record.id, coord |-> all[i].coord, pos |-> all[i].pos,
           log_pval |-> all[i].log_pval, called |-> all[i].called,
           background |-> all[i].background]]

\* to_csv that leaves out the rows of log_pval 0
to_csv_filtered(out, rows) ==
    out \o SelectSeq([i \in 1..Len(rows) |->
                        [name |-> rows[i].name, coord |-> rows[i].coord,
                         pos |-> rows[i].pos, log_pval |-> rows[i].log_pval,
                         called_median |-> rows[i].called,
                         bg_median |-> rows[i].background]],
                     LAMBDA r : r.log_pval > 0)

\* counts.rename(...).to_csv(fout, header=False, ...)
to_csv(out, rows) ==
    out \o [i \in 1..Len(rows) |->
              [name |-> rows[i].name, coord |-> rows[i].coord,
               pos |-> rows[i].pos, log_pval |-> rows[i].log_pval,
               called_median |-> rows[i].called,
               bg_median |-> rows[i].background]]

\* FoutOnError with the rows of the ends already tested written
FoutOnError_partial(out, rows) ==
    out \o [i \in 1..Len(rows) |->
              [name |-> "", coord |-> rows[i].coord, pos |-> rows[i].pos,
               log_pval |-> rows[i].log_pval,
               called_median |-> rows[i].called,
               bg_median |-> rows[i].background]]

\* the output file when fetch raises inside test_record: the exception
\* leaves test_record before anything of the record is written
FoutOnError(out, rows) == out

-----------------------------------------------------------------------------
(* State machine *)

record == vcf[idx]

\* the positions of the window of the end under test
Window == PosRange(EndCoord(record, coord), window)

\* the position the loop of _test_coord is at
NextPos == Window[Len(results) + 1]

Init ==
    /\ countfile \in CountFiles
    /\ window \in Windows
    /\ vcf \in Vcfs
    /\ idx = 0
    /\ pc = "run"
    /\ coord = "posA"
    /\ results = <<>>
    /\ best = <<>>
    /\ bests = <<>>
    /\ counts = <<>>
    /\ fout = <<>>
    /\ queries = <<>>

\* the runner takes the next record of the VCF and test_record starts on
\* its first end
StartRecord ==
    /\ pc = "run"
    /\ idx < Len(vcf)
    /\ idx' = idx + 1
    /\ pc' = "scan"
    /\ coord' = "posA"
    /\ results' = <<>>
    /\ best' = <<>>
    /\ bests' = <<>>
    /\ counts' = <<>>
    /\ queries' = <<>>
    /\ UNCHANGED <<countfile, window, vcf, fout>>

\* the runner has no record left
Finish ==
    /\ pc = "run"
    /\ idx = Len(vcf)
    /\ pc' = "done"
    /\ UNCHANGED <<countfile, window, vcf, idx, coord, results, best, bests,
                   counts, fout, queries>>

\* one turn of the loop of _test_coord: the position is tested and its row
\* appended
TestPosition ==
    /\ pc = "scan"
    /\ Len(results) < Len(Window)
    /\ LET pos == NextPos
           c == EndCoord(record, coord)
           chrom == EndChrom(record, coord)
           r == test(countfile, chrom, pos, EndStrand(record, coord),
                     record.called, record.background)
       IN /\ results' = Append(results,
                [called |-> r.called, background |-> r.background,
                 log_pval |-> r.log_pval, pos |-> pos, dist |-> Abs(pos - c)])
          /\ queries' = IF FetchesRegion(pos)
                        THEN Append(queries, [chrom |-> chrom, pos |-> pos])
                        ELSE queries
    /\ UNCHANGED <<countfile, window, vcf, idx, pc, coord, best, bests,
                   counts, fout>>

\* countfile.fetch raises: the exception leaves load_counts, test,
\* _test_coord, both test_record and the loop of the runner
FetchFails ==
    /\ pc = "scan"
    /\ Len(results) < Len(Window)
    /\ FetchesRegion(NextPos)
    /\ queries' = Append(queries, [chrom |-> EndChrom(record, coord),
                                   pos |-> NextPos])
    /\ fout' = FoutOnError(fout, bests)
    /\ pc' = "aborted"
    /\ UNCHANGED <<countfile, window, vcf, idx, coord, results, best, bests,
                   counts>>

\* _test_coord after its loop: the rows are sorted and the first is the best
ChooseBest ==
    /\ pc = "scan"
    /\ Len(results) = Len(Window)
    /\ best' = sort_values(results)[1]
    /\ pc' = "chosen"
    /\ UNCHANGED <<countfile, window, vcf, idx, coord, results, bests,
                   counts, fout, queries>>

\* _test_coord returns; test_record labels the row and goes to the next end
ReturnBest ==
    /\ pc = "chosen"
    /\ bests' = Append(bests, [called |-> best.called,
                               background |-> best.background,
                               log_pval |-> best.log_pval,
                               pos |-> best.pos, coord |-> coord])
    /\ results' = <<>>
    /\ best' = <<>>
    /\ IF coord = "posA"
       THEN coord' = "posB" /\ pc' = "scan"
       ELSE coord' = coord /\ pc' = "total"
    /\ UNCHANGED <<countfile, window, vcf, idx, counts, fout, queries>>

\* test_record adds the test of the sum and returns its rows
TestTotal ==
    /\ pc = "total"
    /\ counts' = test_record_rows(record, bests)
    /\ pc' = "write"
    /\ UNCHANGED <<countfile, window, vcf, idx, coord, results, best, bests,
                   fout, queries>>

\* the runner writes the rows of the record
WriteRows ==
    /\ pc = "write"
    /\ fout' = to_csv(fout, counts)
    /\ pc' = "run"
    /\ UNCHANGED <<countfile, window, vcf, idx, coord, results, best, bests,
                   counts, queries>>

Next ==
    \/ StartRecord
    \/ Finish
    \/ TestPosition
    \/ FetchFails
    \/ ChooseBest
    \/ ReturnBest
    \/ TestTotal
    \/ WriteRows

Spec == Init /\ [][Next]_vars

-----------------------------------------------------------------------------
(* Properties *)

\* the rows of a sequence, as a set
Rows(s) == {s[i] : i \in DOMAIN s}

\* the predicted coordinate of the end under test
Predicted == IF coord = "posA" THEN vcf[idx].pos ELSE vcf[idx].stop

\* the records whose rows are written: all up to idx between two records
\* and at the end, all before idx otherwise
Completed == IF pc \in {"run", "done"} THEN idx ELSE idx - 1

\* C1: the row _test_coord chooses is one of the rows of the window, no row
\* has a larger log_pval, and no row of the same log_pval lies farther from
\* the predicted coordinate.
C1_BestIsMostSignificantThenFarthest ==
    pc = "chosen" =>
        /\ \E i \in DOMAIN results :
              /\ results[i].pos = best.pos
              /\ results[i].log_pval = best.log_pval
              /\ results[i].dist = best.dist
              /\ results[i].dist = Abs(results[i].pos - Predicted)
        /\ \A r \in Rows(results) :
              /\ r.log_pval <= best.log_pval
              /\ r.log_pval = best.log_pval => r.dist <= best.dist

\* C1 witness: the predicted position shares the top, non-zero log_pval with
\* a farther position, and the farther one is chosen.
C1_Witness ==
    /\ pc = "chosen"
    /\ best.log_pval > 0
    /\ best.dist > 0
    /\ \E r \in Rows(results) : r.dist = 0 /\ r.log_pval = best.log_pval
    /\ \E r \in Rows(results) : r.log_pval < best.log_pval

\* C2: the i-th row of a window scan is the row of position
\* predicted - window + i - 1; a finished scan has 2*window+1 rows; the row
\* of a position <= 0 is there, with medians and log_pval 0.
C2_WindowIsEveryPositionOnce ==
    pc \in {"scan", "chosen"} =>
        /\ Len(results) <= 2 * window + 1
        /\ pc = "chosen" => Len(results) = 2 * window + 1
        /\ \A i \in DOMAIN results :
              /\ results[i].pos = Predicted - window + i - 1
              /\ results[i].pos <= 0 =>
                    /\ results[i].called = 0
                    /\ results[i].background = 0
                    /\ results[i].log_pval = 0

\* C2 witness: a scan whose window reaches below position 1 is finished and
\* the row chosen is one of a position <= 0.
C2_Witness ==
    /\ pc = "chosen"
    /\ window > 0
    /\ Len(results) = 2 * window + 1
    /\ best.pos <= 0

\* the positions of the window of an end that are tested once n of them are
\* done, those > 0 only
PositiveTested(c, n) ==
    SelectSeq([i \in 1..n |-> c - window + i - 1], LAMBDA p : p > 0)

\* the number of positions of the end under test whose load_counts has run
TestedNow ==
    IF pc \in {"scan", "chosen"} THEN Len(results)
    ELSE IF pc = "aborted" THEN Len(results) + 1
    ELSE 2 * window + 1

\* C3: no region of position <= 0 is ever fetched, and the regions fetched
\* for a record are, in order and once each, the positions > 0 tested so far.
C3_NoFetchAtOrBelowZero ==
    /\ \A q \in Rows(queries) : q.pos > 0
    /\ idx > 0 =>
         [i \in DOMAIN queries |-> queries[i].pos] =
            IF coord = "posA"
            THEN PositiveTested(vcf[idx].pos, TestedNow)
            ELSE PositiveTested(vcf[idx].pos, 2 * window + 1)
                 \o PositiveTested(vcf[idx].stop, TestedNow)

\* C3 witness: the first end has been scanned over a window that starts at a
\* position <= 0, and the positions > 0 of it were fetched.
C3_Witness ==
    /\ pc = "chosen"
    /\ coord = "posA"
    /\ results[1].pos <= 0
    /\ Len(queries) > 0
    /\ Len(queries) < Len(results)

\* C4: log_pval is never negative and is 0 when the called median is 0, in
\* the rows of a window and in the rows of a record, the sum row included.
C4_ZeroCalledZeroScore ==
    /\ \A r \in Rows(results) \cup Rows(bests) \cup Rows(counts) :
          /\ r.log_pval >= 0
          /\ r.called = 0 => r.log_pval = 0
    /\ \A r \in Rows(fout) :
          /\ r.log_pval >= 0
          /\ r.called_median = 0 => r.log_pval = 0

\* C4 witness: a sum row of called median 0 and background median > 0.
C4_Witness ==
    /\ pc = "write"
    /\ counts[3].coord = "sum"
    /\ counts[3].called = 0
    /\ counts[3].background > 0
    /\ counts[3].log_pval = 0

\* C5: the third row of a record carries the sums of the medians of the
\* best rows of the two ends, the enrichment of that pair of sums, coord
\* "sum" and pos 0.
C5_SumRow ==
    pc = "write" =>
        /\ Len(counts) = 3
        /\ counts[3].called = bests[1].called + bests[2].called
        /\ counts[3].background = bests[1].background + bests[2].background
        /\ counts[3].log_pval =
              PoissonTable[counts[3].called + 1]
                          [(counts[3].background \div 2) + 1]
        /\ counts[3].coord = "sum"
        /\ counts[3].pos = 0

\* C5 witness: both ends are enriched and the log_pval of the sum row is not
\* the sum of theirs.
C5_Witness ==
    /\ pc = "write"
    /\ bests[1].log_pval > 0
    /\ bests[2].log_pval > 0
    /\ counts[3].background > 0
    /\ counts[3].log_pval # bests[1].log_pval + bests[2].log_pval

\* C6: the output holds three rows per evaluated record, in the order of
\* the records: posA, posB, sum, each with the id of its record; the rows
\* last written are the rows test_record returned.
C6_ThreeRowsPerRecord ==
    /\ Len(fout) = 3 * Completed
    /\ \A i \in 1..Completed :
          /\ fout[3 * i - 2].name = vcf[i].id /\ fout[3 * i - 2].coord = "posA"
          /\ fout[3 * i - 1].name = vcf[i].id /\ fout[3 * i - 1].coord = "posB"
          /\ fout[3 * i].name = vcf[i].id /\ fout[3 * i].coord = "sum"
    /\ (pc = "run" /\ idx > 0) =>
          \A k \in 1..3 :
             /\ fout[3 * idx - 3 + k].pos = counts[k].pos
             /\ fout[3 * idx - 3 + k].log_pval = counts[k].log_pval
             /\ fout[3 * idx - 3 + k].called_median = counts[k].called
             /\ fout[3 * idx - 3 + k].bg_median = counts[k].background

\* C6 witness: two records are written, and a row of log_pval 0 and a row of
\* log_pval > 0 are among the rows.
C6_Witness ==
    /\ pc = "run"
    /\ idx = 2
    /\ Len(fout) = 6
    /\ \E r \in Rows(fout) : r.log_pval = 0
    /\ \E r \in Rows(fout) : r.log_pval > 0

\* C7: when fetch raises during a record, the output holds the rows of the
\* records before it and no row of the record itself.
C7_NoRowOfFailedRecord ==
    pc = "aborted" =>
        /\ Len(fout) = 3 * (idx - 1)
        /\ \A j \in DOMAIN fout : fout[j].name = vcf[(j + 2) \div 3].id

\* C7 witness: fetch raises in the scan of the second end of the second
\* record, after the best row of the first end is known.
C7_Witness ==
    /\ pc = "aborted"
    /\ idx = 2
    /\ coord = "posB"
    /\ Len(bests) = 1
    /\ Len(fout) = 3

\* C8: when the called median is 0 at every position of the window, the row
\* chosen has log_pval 0 and lies at the edge of the window.
C8_AllZeroPicksWindowEdge ==
    (pc = "chosen" /\ \A r \in Rows(results) : r.called = 0) =>
        /\ best.log_pval = 0
        /\ best.dist = window
        /\ best.pos \in {Predicted - window, Predicted + window}
        /\ window > 0 => best.pos # Predicted

\* C8 witness: a window of radius > 0 all of whose positions are fetched
\* and have called median 0, some with background median > 0.
C8_Witness ==
    /\ pc = "chosen"
    /\ window > 0
    /\ \A r \in Rows(results) : r.called = 0 /\ r.pos > 0
    /\ \E r \in Rows(results) : r.background > 0
    /\ best.pos # Predicted

\* C9: at the end of a run in which a record failed, the rows of every later
\* record are written.
C9_LaterRecordsWritten ==
    pc = "aborted" =>
        \A i \in (idx + 1)..Len(vcf) :
            \E j \in DOMAIN fout : fout[j].name = vcf[i].id

\* C10: every region fetched for a record, for either end, is on the
\* chromosome of the record.
C10_FetchOnRecordChrom ==
    idx > 0 => \A q \in Rows(queries) : q.chrom = vcf[idx].chrom

\* C10 witness: the second end of a record whose CHR2 differs from its
\* chromosome has been scanned, with regions fetched.
C10_Witness ==
    /\ pc = "chosen"
    /\ coord = "posB"
    /\ vcf[idx].chr2 # vcf[idx].chrom
    /\ Len(queries) > 2 * window + 1

=============================================================================
